---- MODULE Spec2Model ----
(***************************************************************************)
(* DataScreeningTool (src/test6.py): one session object holding a loaded   *)
(* table (self.data) and an ordered rule list (self.rules), with the       *)
(* operations load_data, add_rule, add_rules_from_dict and screen_data.    *)
(*                                                                         *)
(* A DataFrame is a record                                                 *)
(*   [columns : sequence of column names,                                  *)
(*    dtypes  : column name -> "int64" | "float64" | "string" | "object",  *)
(*    rows    : sequence of [idx : index label, cells : column -> value]]  *)
(* where "string" is a column holding only text and missing cells (pandas  *)
(* dtype object or str, by version) and "object" a column that mixes       *)
(* numbers and text (as read_excel produces).                              *)
(*                                                                         *)
(* A scalar is a record [t, n, s, items]: t is "int", "float" (the         *)
(* integer-valued float n.0), "str" (s, a sequence of one-character        *)
(* strings), "nan" (a missing cell) or "list" (items, a rule operand).     *)
(*                                                                         *)
(* Message.send_wechat_msg (src/zabbix.py) is modelled at the end, under   *)
(* its own specification; a text is there its length and, for the alert    *)
(* list, the sequence of alert lines it is made of.                        *)
(***************************************************************************)
EXTENDS Integers, Sequences, FiniteSets

VARIABLES
    data,      \* self.data: <<>> for None, <<df>> for a loaded DataFrame
    rules,     \* self.rules: sequence of [column, condition, value]
    ret,       \* how the last call ended: what it returned or raised
    loaded,    \* history: some load_data call has completed successfully
    pandas,    \* the installed pandas' version-dependent behaviour (fixed)
    \* One run of Message.send_wechat_msg (src/zabbix.py):
    args,      \* subject and message (their lengths and what the patterns
               \* find in them), the triggers the query returns, the numbers
    pc,        \* where the run is: idle, start, loop, plain, phone, calling,
               \* done, raised
    idx,       \* position of the loop in not_recovered_content
    temp,      \* the alert lines accumulated since the last send
    posted,    \* the webhook posts made, in order
    calls,     \* the voice calls made
    exc        \* the exception that ended the run, "" if none

svars == <<data, rules, ret, loaded, pandas>>
wvars == <<args, pc, idx, temp, posted, calls, exc>>
vars == <<svars, wvars>>

\* Bound on len(self.rules).
MaxRules == 2

----------------------------------------------------------------------------
\* Scalars

IntV(n) == [t |-> "int", n |-> n, s |-> <<>>, items |-> <<>>]
FloatV(n) == [t |-> "float", n |-> n, s |-> <<>>, items |-> <<>>]
StrV(s) == [t |-> "str", n |-> 0, s |-> s, items |-> <<>>]
NaN == [t |-> "nan", n |-> 0, s |-> <<>>, items |-> <<>>]
ListV(xs) == [t |-> "list", n |-> 0, s |-> <<>>, items |-> xs]

IsNum(x) == x.t \in {"int", "float"}
IsNull(x) == x.t = "nan"

Range(f) == {f[i] : i \in DOMAIN f}

\* ord() of the characters that occur in the tables and operands below.
CodePoint(c) ==
    CASE c = "." -> 46
      [] c = "(" -> 40
      [] c = "-" -> 45
      [] c = "0" -> 48 [] c = "1" -> 49 [] c = "2" -> 50 [] c = "3" -> 51
      [] c = "4" -> 52 [] c = "5" -> 53 [] c = "6" -> 54 [] c = "7" -> 55
      [] c = "8" -> 56 [] c = "9" -> 57
      [] c = "a" -> 97 [] c = "l" -> 108 [] c = "n" -> 110
      [] c = "s" -> 115 [] c = "w" -> 119 [] c = "z" -> 122

\* Python's str ordering: lexicographic by code point. -1, 0 or 1.
RECURSIVE StrOrder(_, _)
StrOrder(a, b) ==
    IF a = <<>> /\ b = <<>> THEN 0
    ELSE IF a = <<>> THEN -1
    ELSE IF b = <<>> THEN 1
    ELSE IF CodePoint(Head(a)) < CodePoint(Head(b)) THEN -1
    ELSE IF CodePoint(Head(a)) > CodePoint(Head(b)) THEN 1
    ELSE StrOrder(Tail(a), Tail(b))

\* Mutation of OrderHolds: "<=" and ">=" lose their boundary.
OrderHoldsStrict(d, condition) ==
    CASE condition = ">" -> d > 0
      [] condition = ">=" -> d > 0
      [] condition = "<" -> d < 0
      [] condition = "<=" -> d < 0
      [] condition = "==" -> d = 0
      [] condition = "!=" -> d # 0

\* The six comparison operators on an ordering result d = sign(left - right).
OrderHolds(d, condition) ==
    CASE condition = ">" -> d > 0
      [] condition = ">=" -> d >= 0
      [] condition = "<" -> d < 0
      [] condition = "<=" -> d <= 0
      [] condition = "==" -> d = 0
      [] condition = "!=" -> d # 0

Sign(k) == IF k > 0 THEN 1 ELSE IF k < 0 THEN -1 ELSE 0

Comparisons == {">", ">=", "<", "<=", "==", "!="}
Orderings == {">", ">=", "<", "<="}

\* str(n) of a Python int: decimal digits, "-" for a negative number.
DigitChar(d) == <<"0", "1", "2", "3", "4", "5", "6", "7", "8", "9">>[d + 1]

RECURSIVE Digits(_)
Digits(n) ==
    IF n < 0 THEN <<"-">> \o Digits(0 - n)
    ELSE IF n < 10 THEN <<DigitChar(n)>>
    ELSE Digits(n \div 10) \o <<DigitChar(n % 10)>>

\* str(value) of a scalar rule operand.
PyStr(value) ==
    CASE value.t = "int" -> Digits(value.n)
      [] value.t = "float" -> Digits(value.n) \o <<".", "0">>
      [] value.t = "str" -> value.s

----------------------------------------------------------------------------
\* pandas: element-wise predicates on a column (a sequence of cells).  Each
\* returns [raised, mask]: raised is "" or the name of the exception the
\* expression raises, mask a sequence of BOOLEAN.

TF(b) == IF b THEN "T" ELSE "F"

\* One cell against a scalar operand, as Python compares the two objects:
\* "T", "F", or "E" when the comparison raises TypeError.  A missing cell
\* compares False, and True under "!=".  Numbers compare by value, text by
\* code point; a number and a text are unequal and have no order.
CellCompare(x, condition, value) ==
    IF IsNull(x) THEN TF(condition = "!=")
    ELSE IF IsNum(x) /\ IsNum(value)
        THEN TF(OrderHolds(Sign(x.n - value.n), condition))
    ELSE IF x.t = "str" /\ value.t = "str"
        THEN TF(OrderHolds(StrOrder(x.s, value.s), condition))
    ELSE IF condition = "==" THEN "F"
    ELSE IF condition = "!=" THEN "T"
    ELSE "E"

\* result[column] <condition> value.  A numeric column against a text operand
\* is an invalid comparison whatever the cells are (all False under "==", all
\* True under "!=", TypeError under an ordering); so is, where pd.eager, a
\* text-only column against a number.  Otherwise the cells are compared one by
\* one and the first incomparable cell raises TypeError.  A list operand is
\* compared by position, cell i against item i, and raises ValueError unless
\* it has as many items as the column has cells.
SeriesCompare(dtype, cells, condition, value, pd) ==
    LET isList == value.t = "list"
        aligned == isList /\ Len(value.items) = Len(cells)
        each == [i \in DOMAIN cells |->
                    IF aligned
                    THEN CellCompare(cells[i], condition, value.items[i])
                    ELSE IF isList THEN "F"
                    ELSE CellCompare(cells[i], condition, value)]
        invalid ==
            \/ dtype \in {"int64", "float64"} /\ value.t = "str"
            \/ dtype = "string" /\ IsNum(value) /\ pd.eager
    IN  [raised |-> IF isList /\ ~aligned THEN "ValueError"
                    ELSE IF \/ invalid /\ condition \in Orderings
                            \/ \E i \in DOMAIN cells : each[i] = "E"
                         THEN "TypeError"
                    ELSE "",
         mask |-> [i \in DOMAIN cells |-> each[i] = "T"]]

\* One cell under astype(str): <<text>>, or <<>> for a cell that stays
\* missing.  A missing cell becomes the text 'nan' where pd.nan_as_text.
AsTypeStr(x, pd) ==
    CASE x.t = "int" -> <<Digits(x.n)>>
      [] x.t = "float" -> <<Digits(x.n) \o <<".", "0">>>>
      [] x.t = "str" -> <<x.s>>
      [] x.t = "nan" -> IF pd.nan_as_text THEN <<<<"n", "a", "n">>>> ELSE <<>>

\* re.compile(pat) for a pattern over letters, digits, "." and "(": an
\* opening parenthesis is never closed, and the pattern does not compile
\* (re.error: missing ), unterminated subpattern).
RegexCompiles(pat) == "(" \notin Range(pat)

\* re.search(pat, text) for a compiled pattern: literal characters and ".",
\* which matches any one character.
RegexSearch(pat, text) ==
    \E off \in 0..(Len(text) - Len(pat)) :
        \A i \in 1..Len(pat) : pat[i] = "." \/ pat[i] = text[off + i]

\* result[column].astype(str).str.contains(str(value), na=False): str(value)
\* is compiled as a regular expression before any cell is looked at, so a
\* pattern that does not compile raises re.error whatever the column holds.
SeriesContains(cells, value, pd) ==
    LET pat == PyStr(value)
    IN  [raised |-> IF RegexCompiles(pat) THEN "" ELSE "re.error",
         mask |-> [i \in DOMAIN cells |->
                    LET txt == AsTypeStr(cells[i], pd)
                    IN  /\ RegexCompiles(pat)
                        /\ txt # <<>>
                        /\ RegexSearch(pat, txt[1])]]

\* Equality of a cell and a list item under isin: by value, a missing cell
\* equal to nothing.
ValueEq(x, y) ==
    \/ IsNum(x) /\ IsNum(y) /\ x.n = y.n
    \/ x.t = "str" /\ y.t = "str" /\ x.s = y.s

\* result[column].isin(value), after a scalar value is wrapped in a list.
SeriesIsin(cells, value) ==
    LET items == IF value.t = "list" THEN value.items ELSE <<value>>
    IN  [raised |-> "",
         mask |-> [i \in DOMAIN cells |->
                    \E j \in DOMAIN items : ValueEq(cells[i], items[j])]]

\* ~mask
Invert(p) == [raised |-> p.raised, mask |-> [i \in DOMAIN p.mask |-> ~p.mask[i]]]

\* result[column]
Column(df, column) == [i \in DOMAIN df.rows |-> df.rows[i].cells[column]]

RECURSIVE Take(_, _)
Take(rows, mask) ==
    IF rows = <<>> THEN <<>>
    ELSE (IF Head(mask) THEN <<Head(rows)>> ELSE <<>>)
         \o Take(Tail(rows), Tail(mask))

\* Mutation of Filter: the kept rows are relabelled 0, 1, 2, ...
FilterResetIndex(df, mask) ==
    LET kept == Take(df.rows, mask)
    IN  [df EXCEPT !.rows =
            [i \in DOMAIN kept |-> [idx |-> i - 1, cells |-> kept[i].cells]]]

\* result[mask]: the rows whose mask is True, with their index labels, in
\* order; columns and dtypes as they were.
Filter(df, mask) == [df EXCEPT !.rows = Take(df.rows, mask)]

\* self.data.copy()
Copy(df) == df

----------------------------------------------------------------------------
\* How a call ends.  table is <<>> or <<df>>; warnings are the skipped-rule
\* diagnostics printed during the call.

Return(table, warnings) ==
    [kind |-> "return", msg |-> "", table |-> table, warnings |-> warnings]
Raise(kind, msg, warnings) ==
    [kind |-> kind, msg |-> msg, table |-> <<>>, warnings |-> warnings]

\* ValueError("请先加载数据") and ValueError("请先添加筛查规则")
NoDataMsg == "load the data first"
NoRulesMsg == "add screening rules first"

Warning(what, about) == [warning |-> what, about |-> about]

----------------------------------------------------------------------------
\* screen_data

Step(result, raised, warnings) ==
    [result |-> result, raised |-> raised, warnings |-> warnings]

\* result = result[<mask>], unless computing the mask raised.
Narrow(result, p) ==
    IF p.raised # "" THEN Step(result, p.raised, <<>>)
    ELSE Step(Filter(result, p.mask), "", <<>>)

\* Mutation of MissingColumn: result[column] is evaluated all the same and
\* raises KeyError.
MissingColumnRaises(result, rule) == Step(result, "KeyError", <<>>)

\* The column is not in result.columns: print a warning and continue.
MissingColumn(result, rule) ==
    Step(result, "", <<Warning("column not found", rule.column)>>)

\* Mutation of Unsupported: the final else raises.
UnsupportedRaises(result, rule) == Step(result, "ValueError", <<>>)

\* The condition is none of the ten known ones: print a warning.
Unsupported(result, rule) ==
    Step(result, "", <<Warning("unsupported condition", rule.condition)>>)

\* One iteration of the loop over self.rules: the rule is skipped with a
\* warning when its column is not in result.columns or its condition is none
\* of the ten known ones; otherwise result is narrowed by the rule's mask.
LoopBody(result, rule, pd) ==
    LET column == rule.column
        condition == rule.condition
        value == rule.value
        cells == Column(result, column)
    IN  IF column \notin Range(result.columns)
        THEN MissingColumn(result, rule)
        ELSE IF condition \in Comparisons
        THEN Narrow(result, SeriesCompare(result.dtypes[column], cells,
                                          condition, value, pd))
        ELSE IF condition = "contains"
        THEN Narrow(result, SeriesContains(cells, value, pd))
        ELSE IF condition = "not contains"
        THEN Narrow(result, Invert(SeriesContains(cells, value, pd)))
        ELSE IF condition = "in"
        THEN Narrow(result, SeriesIsin(cells, value))
        ELSE IF condition = "not in"
        THEN Narrow(result, Invert(SeriesIsin(cells, value)))
        ELSE Unsupported(result, rule)

\* Mutation of Loop: a skipped rule ends the loop (break for continue).
RECURSIVE LoopBreakOnSkip(_, _, _)
LoopBreakOnSkip(result, rs, pd) ==
    IF rs = <<>> THEN Step(result, "", <<>>)
    ELSE LET one == LoopBody(result, Head(rs), pd)
         IN  IF one.raised # "" \/ one.warnings # <<>> THEN one
             ELSE LET rest == LoopBreakOnSkip(one.result, Tail(rs), pd)
                  IN  [rest EXCEPT !.warnings = one.warnings \o @]

\* for rule in self.rules: the rules in order, each on the result the rules
\* before it left; an exception ends the loop.
RECURSIVE Loop(_, _, _)
Loop(result, rs, pd) ==
    IF rs = <<>> THEN Step(result, "", <<>>)
    ELSE LET one == LoopBody(result, Head(rs), pd)
         IN  IF one.raised # "" THEN one
             ELSE LET rest == Loop(one.result, Tail(rs), pd)
                  IN  [rest EXCEPT !.warnings = one.warnings \o @]

\* Mutation of Finish: an empty result is reported as an error.
FinishRaiseOnEmpty(l) ==
    IF l.raised # "" THEN Raise(l.raised, "", l.warnings)
    ELSE IF l.result.rows = <<>> THEN Raise("ValueError", "", l.warnings)
    ELSE Return(<<l.result>>, l.warnings)

\* return result, or the exception the loop raised.
Finish(l) ==
    IF l.raised # "" THEN Raise(l.raised, "", l.warnings)
    ELSE Return(<<l.result>>, l.warnings)

\* Mutation of ScreenResult: the rule list is checked before the data.
ScreenResultRulesFirst(d, rs, pd) ==
    IF rs = <<>> THEN Raise("ValueError", NoRulesMsg, <<>>)
    ELSE IF d = <<>> THEN Raise("ValueError", NoDataMsg, <<>>)
    ELSE Finish(Loop(Copy(d[1]), rs, pd))

\* What screen_data does on self.data = d and self.rules = rs.
ScreenResult(d, rs, pd) ==
    IF d = <<>> THEN Raise("ValueError", NoDataMsg, <<>>)
    ELSE IF rs = <<>> THEN Raise("ValueError", NoRulesMsg, <<>>)
    ELSE Finish(Loop(Copy(d[1]), rs, pd))

----------------------------------------------------------------------------
\* The files load_data can be pointed at.  A path is its stem and its
\* extension, as os.path.splitext splits it.

Path(name, ext) == [name |-> name, ext |-> ext]

Row(i, cells) == [idx |-> i, cells |-> cells]

\* people.csv:  age,name / 25,zs / 35,ls / 30,zw
PeopleFrame ==
    [columns |-> <<"age", "name">>,
     dtypes |-> [age |-> "int64", name |-> "string"],
     rows |-> <<Row(0, [age |-> IntV(25), name |-> StrV(<<"z", "s">>)]),
                Row(1, [age |-> IntV(35), name |-> StrV(<<"l", "s">>)]),
                Row(2, [age |-> IntV(30), name |-> StrV(<<"z", "w">>)])>>]

\* gaps.CSV:  age,name / 30, / ,zs     (a missing cell in each column)
GapsFrame ==
    [columns |-> <<"age", "name">>,
     dtypes |-> [age |-> "float64", name |-> "string"],
     rows |-> <<Row(0, [age |-> FloatV(30), name |-> NaN]),
                Row(1, [age |-> NaN, name |-> StrV(<<"z", "s">>)])>>]

\* mixed.xlsx: one column, age, holding the number 30 and the text zs
MixedFrame ==
    [columns |-> <<"age">>,
     dtypes |-> [age |-> "object"],
     rows |-> <<Row(0, [age |-> IntV(30)]),
                Row(1, [age |-> StrV(<<"z", "s">>)])>>]

ExistingPaths ==
    {Path("people", ".csv"), Path("gaps", ".CSV"), Path("mixed", ".xlsx"),
     Path("notes", ".txt")}

Paths == ExistingPaths \cup {Path("missing", ".csv")}

\* os.path.exists(file_path)
Exists(file_path) == file_path \in ExistingPaths

\* str.lower() on the extensions above
Lower(ext) == IF ext = ".CSV" THEN ".csv" ELSE ext

\* pd.read_csv(file_path) / pd.read_excel(file_path)
ReadFrame(file_path) ==
    CASE file_path.name = "people" -> PeopleFrame
      [] file_path.name = "gaps" -> GapsFrame
      [] file_path.name = "mixed" -> MixedFrame

\* What load_data does: the new self.data and how the call ends.
LoadResult(d, file_path) ==
    IF ~Exists(file_path)
    THEN [data |-> d, out |-> Raise("FileNotFoundError", "", <<>>)]
    ELSE LET file_ext == Lower(file_path.ext)
         IN  IF file_ext = ".csv" \/ file_ext \in {".xlsx", ".xls"}
             THEN [data |-> <<ReadFrame(file_path)>>, out |-> Return(<<>>, <<>>)]
             ELSE [data |-> d, out |-> Raise("ValueError", "", <<>>)]

----------------------------------------------------------------------------
\* The rules and rule dictionaries the calls below draw from.

Rule(column, condition, value) ==
    [column |-> column, condition |-> condition, value |-> value]

RuleSet ==
    {Rule("age", ">", IntV(25)),
     Rule("age", ">=", IntV(30)),
     Rule("age", "<", IntV(30)),
     Rule("age", "<=", IntV(30)),
     Rule("age", "==", IntV(30)),
     Rule("age", "!=", IntV(30)),
     Rule("name", "contains", StrV(<<"z">>)),
     Rule("name", "not contains", StrV(<<"z">>)),
     Rule("age", "contains", StrV(<<".">>)),
     Rule("age", "in", IntV(30)),
     Rule("age", "not in", ListV(<<IntV(25), IntV(30)>>)),
     Rule("height", ">", IntV(10)),
     Rule("age", "~=", IntV(5)),
     Rule("name", "<", IntV(30)),
     Rule("age", ">", StrV(<<"z", "s">>)),
     Rule("name", "contains", StrV(<<"(">>)),
     Rule("age", "==", ListV(<<IntV(30), IntV(25)>>))}

\* A dict {column: {condition: value}} in its iteration order: a sequence of
\* [column, conditions], conditions a sequence of [condition, value].
Item(column, conditions) == [column |-> column, conditions |-> conditions]
Cond(condition, value) == [condition |-> condition, value |-> value]

RuleDicts ==
    {<<Item("height", <<Cond(">", IntV(10))>>),
       Item("age", <<Cond("<=", IntV(30))>>)>>,
     <<Item("age", <<Cond("<=", IntV(30))>>),
       Item("name", <<Cond("contains", StrV(<<"z">>))>>)>>,
     <<Item("age", <<Cond("~=", IntV(5))>>)>>,
     <<Item("age", <<Cond("<=", IntV(30)),
                     Cond("in", ListV(<<IntV(25), IntV(30)>>))>>)>>}

\* self.rules.append({...})
AddRule(rs, column, condition, value) ==
    Append(rs, Rule(column, condition, value))

\* for condition, value in conditions.items(): self.add_rule(...)
RECURSIVE AddConditions(_, _, _)
AddConditions(rs, column, conditions) ==
    IF conditions = <<>> THEN rs
    ELSE AddConditions(
            AddRule(rs, column, Head(conditions).condition, Head(conditions).value),
            column, Tail(conditions))

\* for column, conditions in rules_dict.items(): ...
RECURSIVE AddRulesFromDict(_, _)
AddRulesFromDict(rs, rules_dict) ==
    IF rules_dict = <<>> THEN rs
    ELSE AddRulesFromDict(
            AddConditions(rs, Head(rules_dict).column, Head(rules_dict).conditions),
            Tail(rules_dict))

----------------------------------------------------------------------------
\* The session

Called(op, out) == [op |-> op, out |-> out]

\* pandas versions differ in two ways that the filter can observe.
Builds == [nan_as_text : BOOLEAN, eager : BOOLEAN]

\* No send_wechat_msg run: the session's specification leaves these alone.
WechatIdle ==
    /\ args = [subject_len |-> 0, message_len |-> 0, problem |-> FALSE,
               agent_ping |-> FALSE, host |-> "none", alarms |-> <<>>,
               called_number |-> 0]
    /\ pc = "idle"
    /\ idx = 0
    /\ temp = <<>>
    /\ posted = <<>>
    /\ calls = 0
    /\ exc = ""

\* DataScreeningTool()
SessionInit ==
    /\ data = <<>>
    /\ rules = <<>>
    /\ ret = Called("__init__", Return(<<>>, <<>>))
    /\ loaded = FALSE
    /\ pandas \in Builds

Init == SessionInit /\ WechatIdle

load_data(file_path) ==
    LET r == LoadResult(data, file_path)
    IN  /\ data' = r.data
        /\ ret' = Called("load_data", r.out)
        /\ loaded' = (loaded \/ r.out.kind = "return")
        /\ UNCHANGED <<rules, pandas>>
        /\ UNCHANGED wvars

add_rule(column, condition, value) ==
    /\ Len(rules) < MaxRules
    /\ rules' = AddRule(rules, column, condition, value)
    /\ ret' = Called("add_rule", Return(<<>>, <<>>))
    /\ UNCHANGED <<data, loaded, pandas>>
    /\ UNCHANGED wvars

add_rules_from_dict(rules_dict) ==
    /\ Len(AddRulesFromDict(rules, rules_dict)) <= MaxRules
    /\ rules' = AddRulesFromDict(rules, rules_dict)
    /\ ret' = Called("add_rules_from_dict", Return(<<>>, <<>>))
    /\ UNCHANGED <<data, loaded, pandas>>
    /\ UNCHANGED wvars

\* Mutation of screen_data: no copy, the filter narrows self.data itself.
screen_data_in_place ==
    LET out == ScreenResult(data, rules, pandas)
    IN  /\ ret' = Called("screen_data", out)
        /\ data' = IF out.kind = "return" THEN out.table ELSE data
        /\ UNCHANGED <<rules, loaded, pandas>>
        /\ UNCHANGED wvars

screen_data ==
    /\ ret' = Called("screen_data", ScreenResult(data, rules, pandas))
    /\ UNCHANGED <<data, rules, loaded, pandas>>
    /\ UNCHANGED wvars

Next ==
    \/ \E file_path \in Paths : load_data(file_path)
    \/ \E r \in RuleSet : add_rule(r.column, r.condition, r.value)
    \/ \E rules_dict \in RuleDicts : add_rules_from_dict(rules_dict)
    \/ screen_data

Spec == Init /\ [][Next]_vars

----------------------------------------------------------------------------
\* Vocabulary of the properties

\* The last call was screen_data; data and rules are as that call saw them.
Screened == ret.op = "screen_data"
Returned == Screened /\ ret.out.kind = "return"
Result == ret.out.table[1]
Frame == data[1]

KnownConditions ==
    Comparisons \cup {"contains", "not contains", "in", "not in"}

ColumnKnown(rule) == rule.column \in Range(Frame.columns)
Applicable(rule) == ColumnKnown(rule) /\ rule.condition \in KnownConditions

RemoveAt(seq, i) == SubSeq(seq, 1, i - 1) \o SubSeq(seq, i + 1, Len(seq))

Perms(n) ==
    {p \in [1..n -> 1..n] : \A i, j \in 1..n : p[i] = p[j] => i = j}
Permuted(seq, p) == [i \in DOMAIN seq |-> seq[p[i]]]

\* The row passes the rule when the rule is evaluated on that row alone; a
\* rule that is skipped passes every row.
RowPasses(row, rule) ==
    LET one == LoopBody([Frame EXCEPT !.rows = <<row>>], rule, pandas)
    IN  one.raised = "" /\ one.result.rows = <<row>>

\* The rule compares the column with a list operand, position by position.
Positional(rule) ==
    /\ ColumnKnown(rule)
    /\ rule.condition \in Comparisons
    /\ rule.value.t = "list"

RowPassesAll(row) == \A k \in DOMAIN rules : RowPasses(row, rules[k])

\* The rows at positions i < j of sub occur in that order in seq.
IsSubsequence(sub, seq) ==
    \E f \in [DOMAIN sub -> DOMAIN seq] :
        /\ \A i \in DOMAIN sub : seq[f[i]] = sub[i]
        /\ \A i, j \in DOMAIN sub : i < j => f[i] < f[j]

HasAge30(row) ==
    "age" \in DOMAIN row.cells /\ IsNum(row.cells.age) /\ row.cells.age.n = 30

----------------------------------------------------------------------------
\* C1 as stated: screen_data raises the no-data error whenever no load has
\* succeeded (whatever the rules), the no-rules error whenever data is loaded
\* and the rule list is empty, and in every other state returns a table.
C1_AsStated ==
    Screened =>
        /\ ~loaded => ret.out = Raise("ValueError", NoDataMsg, <<>>)
        /\ loaded /\ rules = <<>> => ret.out = Raise("ValueError", NoRulesMsg, <<>>)
        /\ loaded /\ rules # <<>> => ret.out.kind = "return" /\ ret.out.table # <<>>

\* C1 amended: screen_data raises the no-data error whenever no load has
\* succeeded (whatever the rules), the no-rules error whenever data is loaded
\* and the rule list is empty, and in every other state either returns a table
\* or raises the exception that evaluating one of the rules raised (TypeError
\* of an ordering between a number and a text, re.error of a "contains"
\* operand that is not a regular expression, ValueError of a comparison with a
\* list that has not one item per row), never one of the two state errors.
C1_StateErrors ==
    Screened =>
        /\ ~loaded => ret.out = Raise("ValueError", NoDataMsg, <<>>)
        /\ loaded /\ rules = <<>> => ret.out = Raise("ValueError", NoRulesMsg, <<>>)
        /\ loaded /\ rules # <<>> =>
            \/ ret.out.kind = "return" /\ ret.out.table # <<>>
            \/ /\ ret.out.kind = Loop(Copy(Frame), rules, pandas).raised
                /\ ret.out.kind \in {"TypeError", "re.error", "ValueError"}
                /\ ret.out.msg \notin {NoDataMsg, NoRulesMsg}

\* screen_data was called with rules defined but no successful load (a load
\* was tried and failed): the no-data error.
C1_Witness ==
    /\ Screened /\ ~loaded /\ rules # <<>>
    /\ ret.out.msg = NoDataMsg

\* C2 as stated: for every loaded table and non-empty rule list screen_data
\* returns exactly the rows that pass every applicable rule, in their original
\* order; a row with age 30 is kept by "<= 30" and dropped by "< 30".
C2_AsStated ==
    Screened /\ loaded /\ rules # <<>> =>
        /\ ret.out.kind = "return"
        /\ ret.out.table # <<>>
        /\ Result.rows = SelectSeq(Frame.rows, RowPassesAll)

\* C2 amended: whenever screen_data returns and no rule compares a column
\* with a list operand, it returns exactly the rows of the loaded table that
\* pass every applicable rule, in their original order; a row with age 30 is
\* kept by "<= 30" alone and dropped whenever "< 30" is among the rules.  (It
\* raises instead of returning when a rule orders a number against a text or
\* a "contains" operand is not a regular expression; a list operand of a
\* comparison is matched against the rows by position, not row by row.)
C2_ReturnsConjunction ==
    Returned =>
        /\ (\A k \in DOMAIN rules : ~Positional(rules[k]))
            => Result.rows = SelectSeq(Frame.rows, RowPassesAll)
        /\ \A i \in DOMAIN Frame.rows :
            HasAge30(Frame.rows[i]) =>
                /\ rules = <<Rule("age", "<=", IntV(30))>>
                    => Frame.rows[i] \in Range(Result.rows)
                /\ Rule("age", "<", IntV(30)) \in Range(rules)
                    => Frame.rows[i] \notin Range(Result.rows)

\* Two applicable rules, each dropping a row the other keeps, were applied to
\* the three-row table and rows 0 and 2 were returned.
C2_Witness ==
    /\ Returned
    /\ Frame = PeopleFrame
    /\ rules = <<Rule("age", "<=", IntV(30)), Rule("name", "contains", StrV(<<"z">>))>>
    /\ Result.rows = <<PeopleFrame.rows[1], PeopleFrame.rows[3]>>

\* C3: a screen_data call, returning or raising, leaves self.data and
\* self.rules as they were, and a screen_data call right after another ends as
\* the first did.
C3_ScreenKeepsState ==
    [][ret'.op = "screen_data" =>
        /\ data' = data
        /\ rules' = rules
        /\ (ret.op = "screen_data" => ret' = ret)]_vars

\* screen_data returned fewer rows than the loaded table, which still has
\* all of its rows.
C3_Witness ==
    /\ Returned
    /\ Len(Result.rows) < Len(Frame.rows)
    /\ Frame \in {PeopleFrame, GapsFrame, MixedFrame}

C5_UnknownColumnSkipped ==
    Screened /\ loaded =>
        \A i \in DOMAIN rules :
            ~ColumnKnown(rules[i]) =>
                LET rest == RemoveAt(rules, i)
                    o == ScreenResult(data, rest, pandas)
                IN  IF rest = <<>>
                    THEN ret.out.kind = "return" /\ ret.out.table = data
                    ELSE ret.out.kind = o.kind /\ ret.out.table = o.table

\* A rule on a column the table lacks came first, was reported, and the rule
\* after it still narrowed the table.
C5_Witness ==
    /\ Returned
    /\ Len(rules) = 2
    /\ ~ColumnKnown(rules[1]) /\ Applicable(rules[2])
    /\ ret.out.warnings = <<Warning("column not found", rules[1].column)>>
    /\ Len(Result.rows) < Len(Frame.rows)

\* C6: add_rule and add_rules_from_dict never raise, whatever the condition;
\* a rule with an unrecognized condition makes no difference to screen_data,
\* which ends as it does with that rule removed and returns the whole table
\* when no other rule remains.
C6_UnsupportedConditionSkipped ==
    /\ ret.op \in {"add_rule", "add_rules_from_dict"} =>
        /\ ret.out.kind = "return"
        /\ rules # <<>>
    /\ Screened /\ loaded =>
        \A i \in DOMAIN rules :
            rules[i].condition \notin KnownConditions =>
                LET rest == RemoveAt(rules, i)
                    o == ScreenResult(data, rest, pandas)
                IN  IF rest = <<>>
                    THEN ret.out.kind = "return" /\ ret.out.table = data
                    ELSE ret.out.kind = o.kind /\ ret.out.table = o.table

\* A rule with the condition "~=" was stored first, screen_data reported it
\* and the rule after it still narrowed the table.
C6_Witness ==
    /\ Returned
    /\ Len(rules) = 2
    /\ rules[1].condition = "~=" /\ ColumnKnown(rules[1]) /\ Applicable(rules[2])
    /\ ret.out.warnings = <<Warning("unsupported condition", "~=")>>
    /\ Len(Result.rows) < Len(Frame.rows)

\* C7 as stated: the table screen_data returns is a fixed point of the rules:
\* applying the same rules to it returns it again; and its rows are rows of
\* the loaded table, index labels included, in their original order.
C7_AsStated ==
    Returned =>
        /\ ScreenResult(ret.out.table, rules, pandas) = ret.out
        /\ IsSubsequence(Result.rows, Frame.rows)

\* C7 amended: the rows screen_data returns are rows of the loaded table,
\* index labels included, in their original order; applying the same rules to
\* the returned table returns it again, unless a rule compares a column with a
\* list operand, when it either returns it again or raises ValueError (the
\* list no longer has one item per row).
C7_RefilterIdempotent ==
    Returned =>
        /\ IsSubsequence(Result.rows, Frame.rows)
        /\ LET again == ScreenResult(ret.out.table, rules, pandas)
           IN  IF \E k \in DOMAIN rules : Positional(rules[k])
               THEN again = ret.out \/ again.kind = "ValueError"
               ELSE again = ret.out

\* screen_data kept some rows and dropped others.
C7_Witness ==
    /\ Returned
    /\ Result.rows # <<>>
    /\ Len(Result.rows) < Len(Frame.rows)
    /\ \E k \in DOMAIN rules : Applicable(rules[k])

\* C8: a returned table has the columns (and dtypes) of the loaded table; and
\* when the loop leaves no row without raising, screen_data returns that
\* zero-row table rather than an error.
C8_ColumnsKept ==
    Screened /\ loaded /\ rules # <<>> =>
        /\ ret.out.kind = "return" =>
            /\ Result.columns = Frame.columns
            /\ Result.dtypes = Frame.dtypes
        /\ LET l == Loop(Copy(Frame), rules, pandas)
           IN  l.raised = "" /\ l.result.rows = <<>> =>
                    /\ ret.out.kind = "return"
                    /\ Result.rows = <<>>
                    /\ Result.columns = Frame.columns

\* The rules matched no row of a two-column table: a zero-row table with
\* both columns was returned.
C8_Witness ==
    /\ Returned
    /\ Frame.rows # <<>>
    /\ Result.rows = <<>>
    /\ Result.columns = <<"age", "name">>

\* The claim's reading of "contains": the cell is not missing and the text
\* form of the cell has the text form of the operand as a literal substring.
IsSubstring(pat, text) ==
    \E off \in 0..(Len(text) - Len(pat)) :
        SubSeq(text, off + 1, off + Len(pat)) = pat

ContainsAsClaimed(x, value) ==
    /\ ~IsNull(x)
    /\ IsSubstring(PyStr(value), AsTypeStr(x, [nan_as_text |-> FALSE, eager |-> FALSE])[1])

\* C9 as stated: a "contains" rule keeps a row if and only if the row's cell
\* is not missing and its text form contains the operand's text form as a
\* substring: every returned row does, and a "contains" rule alone returns
\* exactly the rows that do.
C9_AsStated ==
    Returned =>
        \A k \in DOMAIN rules :
            rules[k].condition = "contains" /\ ColumnKnown(rules[k]) =>
                LET Keeps(row) ==
                        ContainsAsClaimed(row.cells[rules[k].column], rules[k].value)
                IN  /\ \A i \in DOMAIN Result.rows : Keeps(Result.rows[i])
                    /\ Len(rules) = 1 => Result.rows = SelectSeq(Frame.rows, Keeps)

----------------------------------------------------------------------------
\* Message.send_wechat_msg (src/zabbix.py)

\* Bound on the number of triggers the monitoring query returns.
MaxAlarms == 3

\* if len(content + temp) > 3089
Limit == 3089

\* len('>未恢复告警列表：')
ListTitleLen == 9

\* The methods class Message defines.
MessageMethods ==
    {"__init__", "get_not_recovered_alert", "send_message", "send_wechat_msg"}

\* A trigger of the query result, by the lengths of its host and description.
Alarm(host_len, description_len) ==
    [host_len |-> host_len, description_len |-> description_len]

Alarms == {Alarm(5, 985), Alarm(5, 1985)}

AlarmLists ==
    UNION {[1..n -> Alarms] : n \in 0..MaxAlarms}

\* subject and message as the run reads them: their lengths, whether
\* 'PROBLEM' occurs in subject and 'Agent ping' in message, and what the host
\* pattern finds in message: no '>主机：' at all ("none"), one with no further
\* '>' after it ("no_gt"), one with '>' but no '<' after that ("no_lt"), or
\* the expected '>主机：<..>host<..>' ("ok").
WechatArgs ==
    [subject_len : {7}, message_len : {80, 1180},
     problem : BOOLEAN, agent_ping : BOOLEAN,
     host : {"none", "no_gt", "no_lt", "ok"},
     alarms : AlarmLists, called_number : {2}]

\* get_not_recovered_alert: one line ">主机：{}  问题：{}\n" per trigger, in
\* query order; a line is its position in the query result and its length.
GetNotRecoveredAlert(alarms) ==
    [i \in DOMAIN alarms |->
        [alarm |-> i, len |-> 4 + alarms[i].host_len + 5 + alarms[i].description_len + 1]]

not_recovered_content == GetNotRecoveredAlert(args.alarms)

\* len(subject + '\n' + message + '\n\n' + '>未恢复告警列表：' + '\n')
ListContentLen == args.subject_len + 1 + args.message_len + 2 + ListTitleLen + 1

\* len(subject + '\n' + message + '\n')
PlainContentLen == args.subject_len + 1 + args.message_len + 1

RECURSIVE TextLen(_)
TextLen(lines) ==
    IF lines = <<>> THEN 0 ELSE Head(lines).len + TextLen(Tail(lines))

\* requests.post of content: its header length and the alert lines after it.
Post(header_len, lines) == [header_len |-> header_len, lines |-> lines]

WechatInit ==
    /\ args \in WechatArgs
    /\ pc = "start"
    /\ idx = 0
    /\ temp = <<>>
    /\ posted = <<>>
    /\ calls = 0
    /\ exc = ""

\* No screening session: the run's specification leaves these alone.
SessionIdle ==
    /\ data = <<>>
    /\ rules = <<>>
    /\ ret = Called("__init__", Return(<<>>, <<>>))
    /\ loaded = FALSE
    /\ pandas = [nan_as_text |-> TRUE, eager |-> FALSE]

\* An external request (the zabbix query, the webhook post, the voice call)
\* that does not answer raises, and nothing in send_wechat_msg catches it.
RequestFails ==
    /\ exc' = "RequestFailed"
    /\ pc' = "raised"

\* not_recovered_content = self.get_not_recovered_alert(); the branch on
\* len(not_recovered_content) > 0, and temp = ''.
GetAlerts ==
    /\ pc = "start"
    /\ \/ /\ pc' = IF Len(not_recovered_content) > 0 THEN "loop" ELSE "plain"
          /\ idx' = 1
          /\ temp' = <<>>
          /\ exc' = exc
       \/ /\ RequestFails
          /\ UNCHANGED <<idx, temp>>
    /\ UNCHANGED <<args, posted, calls>>
    /\ UNCHANGED svars

\* One iteration of for msg in not_recovered_content: temp += msg, and when
\* content + temp is longer than the limit, self.send_request(content + temp)
\* and temp = ''.  Message has no attribute send_request: AttributeError.
LoopStep ==
    /\ pc = "loop"
    /\ idx <= Len(not_recovered_content)
    /\ LET t == Append(temp, not_recovered_content[idx])
       IN  IF ListContentLen + TextLen(t) > Limit
           THEN IF "send_request" \in MessageMethods
                THEN /\ posted' = Append(posted, Post(ListContentLen, t))
                     /\ temp' = <<>>
                     /\ idx' = idx + 1
                     /\ UNCHANGED <<pc, exc>>
                ELSE /\ exc' = "AttributeError"
                     /\ pc' = "raised"
                     /\ temp' = t
                     /\ UNCHANGED <<idx, posted>>
           ELSE /\ temp' = t
                /\ idx' = idx + 1
                /\ UNCHANGED <<pc, posted, exc>>
    /\ UNCHANGED <<args, calls>>
    /\ UNCHANGED svars

\* After the loop: if temp != '': self.send_message(content + temp).
Flush ==
    /\ pc = "loop"
    /\ idx > Len(not_recovered_content)
    /\ \/ /\ posted' = IF temp # <<>>
                       THEN Append(posted, Post(ListContentLen, temp))
                       ELSE posted
          /\ pc' = "phone"
          /\ exc' = exc
       \/ /\ temp # <<>>
          /\ RequestFails
          /\ posted' = posted
    /\ UNCHANGED <<args, idx, temp, calls>>
    /\ UNCHANGED svars

\* No unrecovered alert: self.send_message(subject + '\n' + message + '\n').
Plain ==
    /\ pc = "plain"
    /\ \/ /\ posted' = Append(posted, Post(PlainContentLen, <<>>))
          /\ pc' = "phone"
          /\ exc' = exc
       \/ /\ RequestFails
          /\ posted' = posted
    /\ UNCHANGED <<args, idx, temp, calls>>
    /\ UNCHANGED svars

\* The phone notification up to its loop: when 'PROBLEM' is in subject and
\* 'Agent ping' in message, the host is cut out of message.
\* host_patt.search(message) is None without a host line (AttributeError on
\* .group()); str.index raises ValueError without the '>' or the '<'.  With
\* the host in hand the loop over self.called_number starts; it makes no call
\* when the list is empty.
Phone ==
    /\ pc = "phone"
    /\ IF args.problem /\ args.agent_ping
       THEN IF args.host = "none"
            THEN exc' = "AttributeError" /\ pc' = "raised"
            ELSE IF args.host \in {"no_gt", "no_lt"}
            THEN exc' = "ValueError" /\ pc' = "raised"
            ELSE /\ pc' = IF args.called_number > 0 THEN "calling" ELSE "done"
                 /\ exc' = exc
       ELSE pc' = "done" /\ exc' = exc
    /\ UNCHANGED <<args, idx, temp, posted, calls>>
    /\ UNCHANGED svars

\* One iteration of for n in self.called_number:
\* self.alivoice.send_alivoice_msg(n, json.dumps(data)), one blocking request
\* to the voice service.  calls counts the calls made, so the loop is at the
\* number after them; the run returns after the last one.
VoiceCall ==
    /\ pc = "calling"
    /\ calls < args.called_number
    /\ \/ /\ calls' = calls + 1
          /\ pc' = IF calls + 1 = args.called_number THEN "done" ELSE "calling"
          /\ exc' = exc
       \/ /\ RequestFails
          /\ calls' = calls
    /\ UNCHANGED <<args, idx, temp, posted>>
    /\ UNCHANGED svars

WechatNext ==
    \/ GetAlerts
    \/ LoopStep
    \/ Flush
    \/ Plain
    \/ Phone
    \/ VoiceCall

WechatRunInit == WechatInit /\ SessionIdle

SpecWechat == WechatRunInit /\ [][WechatNext]_vars

RECURSIVE Delivered(_)
Delivered(posts) ==
    IF posts = <<>> THEN <<>> ELSE Head(posts).lines \o Delivered(Tail(posts))

\* C10 as stated: when the query returns at least one unrecovered alert
\* (and the webhook and the voice service answer every request), the run ends
\* without an exception, the alert lines posted to the webhook are every line
\* of the query result, once each and in query order, and every post starts
\* with the subject/message header; also when the content grows past the
\* limit and is split.
C10_AsStated ==
    pc \in {"done", "raised"} /\ args.alarms # <<>> /\ exc # "RequestFailed" =>
        /\ exc = ""
        /\ Delivered(posted) = not_recovered_content
        /\ \A k \in DOMAIN posted : posted[k].header_len = ListContentLen

====
